---- MODULE Spec2Model ----
(***************************************************************************)
(* Lifting diary: the relational schema (exercises, workouts,              *)
(* workout_exercises, sets), the data helpers that query it, the server    *)
(* actions that wrap the helpers, as a state machine over the tables.      *)
(*                                                                         *)
(* Two helper modules exist side by side in the repository:                *)
(*   - src/data/workouts (createWorkout, updateWorkout(id, userId, data),  *)
(*     deleteWorkout, getUserWorkouts(userId), getWorkout): the caller     *)
(*     passes the identity; names here carry the prefix Dal.               *)
(*   - data/workouts (getUserWorkoutsByDate, getUserWorkouts,              *)
(*     getUserWorkoutById, updateWorkout(workoutId, data)): each resolves  *)
(*     the identity itself with auth().                                    *)
(* updateWorkoutAction imports updateWorkout from the second one.          *)
(*                                                                         *)
(* A nullable column or an optional result holds <<>> (null / undefined)   *)
(* or <<v>>.  A JS object with optional keys is a function whose DOMAIN    *)
(* is the set of keys present.                                             *)
(***************************************************************************)
EXTENDS Integers, Sequences, FiniteSets, TLC

VARIABLES
    workouts,          \* rows of table workouts
    workoutExercises,  \* rows of table workout_exercises
    sets,              \* rows of table sets
    exercises,         \* rows of table exercises
    serial,            \* last value handed out by each table's id sequence
    now,               \* the clock read by defaultNow() and by new Date()
    upd,               \* calls between two of their statements
    result,            \* what the last completed call gave its caller
    lastStmt,          \* the statement the last step sent to the database
    createdBy          \* history: the identity each workout id was created under

vars == <<workouts, workoutExercises, sets, exercises, serial, now, upd, result,
          lastStmt, createdBy>>

(***************************************************************************)
(* Bounds of the model.                                                    *)
(***************************************************************************)
\* requests that can be inside updateWorkout at once
NumProcs == 2
\* Spec: ids the workouts sequence hands out; rows of each child table
MaxWorkouts == 2
MaxChildren == 1
\* SpecFields: workouts, and how far the clock runs
FieldsMaxWorkouts == 1
MaxClock == 2
\* SpecTree: workouts, exercises, workout_exercises and sets
TreeMaxWorkouts == 2
MaxExercises == 1
MaxWorkoutExercises == 2
MaxSets == 2
\* SpecDate: workouts; milliseconds in a day (a day is scaled down to DayLen
\* instants, the last of which stands for 23:59:59.999) and days
DateMaxWorkouts == 3
DayLen == 3
NumDays == 2
\* SpecAuth: workouts
AuthMaxWorkouts == 2
\* SpecStorage: workouts
StorageMaxWorkouts == 2
\* SpecLife: workouts
LifeMaxWorkouts == 1
\* SpecPage: workouts, and the characters of a route segment
PageMaxWorkouts == 2
MaxSegmentLen == 2
\* SpecTx: ids the workouts sequence hands out
TxMaxWorkouts == 3
\* SpecClock: workouts, and the last instant the clock reaches
ClockMaxWorkouts == 1
ClockMax == 2

(***************************************************************************)
(* Values.                                                                 *)
(***************************************************************************)
Null == <<>>
Some(v) == <<v>>

Users == {"u1", "u2"}
\* auth() gives { userId: null } when the request carries no session
NoUser == "<no-session>"
Identities == Users \cup {NoUser}

\* varchar('name', { length: 255 })
MaxNameLen == 255

RECURSIVE Rep(_)
Rep(n) == IF n = 0 THEN "" ELSE "x" \o Rep(n - 1)
LongName == Rep(MaxNameLen + 1)

\* new Date(s) of an unparseable string is an Invalid Date; Date.parse gives NaN
NaN == -1
Times == 0 .. (NumDays * DayLen - 1)
Procs == 1 .. NumProcs

(***************************************************************************)
(* Drizzle filters: a WHERE clause is a sequence of atoms, and(...) joins  *)
(* them.                                                                   *)
(***************************************************************************)
eq(col, val) == << [op |-> "eq", col |-> col, val |-> val] >>
gte(col, val) == << [op |-> "gte", col |-> col, val |-> val] >>
lt(col, val) == << [op |-> "lt", col |-> col, val |-> val] >>
and(a, b) == a \o b

AtomHolds(row, atom) ==
    CASE atom.op = "eq" -> row[atom.col] = atom.val
      [] atom.op = "gte" -> row[atom.col] >= atom.val
      [] atom.op = "lt" -> row[atom.col] < atom.val

Matches(row, where) == \A i \in 1 .. Len(where) : AtomHolds(row, where[i])

\* a statement as sent to the database, with the identity it was built under
Stmt(kind, table, where, by) ==
    [kind |-> kind, table |-> table, where |-> where, by |-> by]
NoStmt == [kind |-> "none", table |-> "none", where |-> <<>>, by |-> NoUser]

\* the rows of a table a WHERE clause selects
Select(table, where) == {r \in table : Matches(r, where)}

(***************************************************************************)
(* Schema: column rules the database enforces on a workouts row.           *)
(***************************************************************************)
\* user_id varchar(255) not null, name varchar(255)
WorkoutColumnsOk(vals) ==
    /\ "userId" \in DOMAIN vals => vals.userId # NoUser
    /\ "name" \in DOMAIN vals => Len(vals.name) <= MaxNameLen

InsertedWorkout_ReusesIds(vals) ==
    [id |-> Cardinality(workouts) + 1,
     userId |-> vals.userId,
     name |-> IF "name" \in DOMAIN vals THEN Some(vals.name) ELSE Null,
     startedAt |-> vals.startedAt,
     completedAt |-> Null,
     createdAt |-> now,
     updatedAt |-> now]
\* insert into workouts (...) values (...) returning *: id from the serial,
\* completed_at null, created_at and updated_at defaultNow()
InsertedWorkout(vals) ==
    [id |-> serial.workouts + 1,
     userId |-> vals.userId,
     name |-> IF "name" \in DOMAIN vals THEN Some(vals.name) ELSE Null,
     startedAt |-> vals.startedAt,
     completedAt |-> Null,
     createdAt |-> now,
     updatedAt |-> now]

SetColumns_ResetsCompletedAt(row, setv) ==
    [c \in DOMAIN row |->
        IF c \in DOMAIN setv
        THEN (IF c = "name" THEN Some(setv[c]) ELSE setv[c])
        ELSE IF c = "completedAt" THEN Null ELSE row[c]]
SetColumns_ClearsName(row, setv) ==
    [c \in DOMAIN row |->
        IF c \in DOMAIN setv
        THEN (IF c = "name" THEN Some(setv[c]) ELSE setv[c])
        ELSE IF c = "name" THEN Null ELSE row[c]]
\* update workouts set ... : the columns named in the SET clause get the
\* given values, every other column keeps its value
SetColumns(row, setv) ==
    [c \in DOMAIN row |->
        IF c \in DOMAIN setv
        THEN (IF c = "name" THEN Some(setv[c]) ELSE setv[c])
        ELSE row[c]]

\* update workouts set ... where ... returning *
UpdatedRows(table, where, setv) ==
    {SetColumns(r, setv) : r \in Select(table, where)}
AfterUpdate(table, where, setv) ==
    (table \ Select(table, where)) \cup UpdatedRows(table, where, setv)

WorkoutExercisesAfterDelete_NoCascade(goneWorkouts, goneExercises) == workoutExercises
\* references(() => workouts.id, { onDelete: 'cascade' }) and
\* references(() => exercises.id, { onDelete: 'cascade' })
WorkoutExercisesAfterDelete(goneWorkouts, goneExercises) ==
    {we \in workoutExercises :
        /\ we.workoutId \notin {w.id : w \in goneWorkouts}
        /\ we.exerciseId \notin {e.id : e \in goneExercises}}

\* references(() => workoutExercises.id, { onDelete: 'cascade' })
SetsAfterDelete(keptWorkoutExercises) ==
    {s \in sets : s.workoutExerciseId \in {we.id : we \in keptWorkoutExercises}}


\* the driver turns a Date parameter into text with toISOString(), which
\* throws for an Invalid Date before anything reaches the database
ParamsOk(vals) ==
    /\ "startedAt" \in DOMAIN vals => vals.startedAt # NaN
    /\ "completedAt" \in DOMAIN vals =>
          (vals.completedAt = Null \/ vals.completedAt[1] # NaN)

\* the first row of a returning / select result: const [workout] = await ...
First(rows) == IF rows = {} THEN Null ELSE Some(CHOOSE r \in rows : TRUE)

(***************************************************************************)
(* What a call gives back.  out is "return" or "throw"; value is the       *)
(* returned value, error the message of the thrown Error; revalidated the  *)
(* paths passed to revalidatePath during the call.                         *)
(***************************************************************************)
Returned(op, by, arg, value, paths) ==
    [op |-> op, by |-> by, arg |-> arg, out |-> "return", value |-> value,
     error |-> "", revalidated |-> paths]
Thrown(op, by, arg, error) ==
    [op |-> op, by |-> by, arg |-> arg, out |-> "throw", value |-> Null,
     error |-> error, revalidated |-> {}]
NoResult == Returned("none", NoUser, <<>>, Null, {})

Idle == [pc |-> "idle"]

(***************************************************************************)
(* src/data/workouts: the identity is an argument.  Each helper is given   *)
(* as its effect on the tables (with the statement it sends) and as the    *)
(* value it returns or the fault it throws.                                *)
(***************************************************************************)
Dal_WhereOwned_IdOnly(id, userId) == eq("id", id)
Dal_WhereOwned(id, userId) == and(eq("id", id), eq("userId", userId))

Ok(value) == [out |-> "return", value |-> value, error |-> ""]
Fault(error) == [out |-> "throw", value |-> Null, error |-> error]

\* createWorkout(data): insert into workouts values(data) returning
Dal_createWorkoutAccepted(data) == ParamsOk(data) /\ WorkoutColumnsOk(data)

Dal_createWorkout(data) ==
    /\ lastStmt' = IF ParamsOk(data)
                   THEN Stmt("insert", "workouts", <<>>, data.userId)
                   ELSE NoStmt
    /\ IF Dal_createWorkoutAccepted(data)
       THEN /\ workouts' = workouts \cup {InsertedWorkout(data)}
            /\ serial' = [serial EXCEPT !.workouts = @ + 1]
            /\ createdBy' = Append(createdBy, data.userId)
       ELSE UNCHANGED <<workouts, serial, createdBy>>
    /\ UNCHANGED <<workoutExercises, sets, exercises, now, upd>>

Dal_createWorkoutGives(data) ==
    IF Dal_createWorkoutAccepted(data)
    THEN Ok(Some(InsertedWorkout(data)))
    ELSE Fault("storage error")

\* updateWorkout(id, userId, data): one statement, filtered by id and owner
Dal_updateWorkoutSet(data) == data @@ [updatedAt |-> now]

\* the length of a value is checked against the column for the rows written
Dal_updateWorkoutAccepted(table, id, userId, data) ==
    /\ ParamsOk(Dal_updateWorkoutSet(data))
    /\ \/ Select(table, Dal_WhereOwned(id, userId)) = {}
       \/ WorkoutColumnsOk(Dal_updateWorkoutSet(data))

Dal_updateWorkout(id, userId, data) ==
    /\ lastStmt' = IF ParamsOk(Dal_updateWorkoutSet(data))
                   THEN Stmt("update", "workouts", Dal_WhereOwned(id, userId), userId)
                   ELSE NoStmt
    /\ workouts' = IF Dal_updateWorkoutAccepted(workouts, id, userId, data)
                   THEN AfterUpdate(workouts, Dal_WhereOwned(id, userId),
                                    Dal_updateWorkoutSet(data))
                   ELSE workouts
    /\ UNCHANGED <<workoutExercises, sets, exercises, serial, now, upd, createdBy>>

Dal_updateWorkoutGives(table, id, userId, data) ==
    IF Dal_updateWorkoutAccepted(table, id, userId, data)
    THEN Ok(First(UpdatedRows(table, Dal_WhereOwned(id, userId),
                              Dal_updateWorkoutSet(data))))
    ELSE Fault("storage error")

\* deleteWorkout(id, userId): one statement, filtered by id and owner; the
\* foreign keys cascade
Dal_deleteWorkout(id, userId) ==
    LET gone == Select(workouts, Dal_WhereOwned(id, userId))
        keptWe == WorkoutExercisesAfterDelete(gone, {})
    IN  /\ lastStmt' = Stmt("delete", "workouts", Dal_WhereOwned(id, userId), userId)
        /\ workouts' = workouts \ gone
        /\ workoutExercises' = keptWe
        /\ sets' = SetsAfterDelete(keptWe)
        /\ UNCHANGED <<exercises, serial, now, upd, createdBy>>

Dal_deleteWorkoutGives_AnyOwner(table, id, userId) ==
    Ok(First(Select(table, eq("id", id))))
Dal_deleteWorkoutGives(table, id, userId) ==
    Ok(First(Select(table, Dal_WhereOwned(id, userId))))

\* getWorkout(id, userId): select ... where id and owner, limit 1
Dal_getWorkoutStmt(id, userId) ==
    Stmt("select", "workouts", Dal_WhereOwned(id, userId), userId)

Dal_getWorkoutGives(table, id, userId) ==
    Ok(First(Select(table, Dal_getWorkoutStmt(id, userId).where)))

(***************************************************************************)
(* Ordered results.  orderBy leaves the order of rows with equal keys to   *)
(* the database: every order that respects the keys is a possible result.  *)
(***************************************************************************)
Orders(S) ==
    {s \in [1 .. Cardinality(S) -> S] :
        \A i, j \in 1 .. Cardinality(S) : i # j => s[i] # s[j]}
asc(S, col) ==
    {s \in Orders(S) : \A i \in 1 .. (Len(s) - 1) : s[i][col] <= s[i + 1][col]}
desc(S, col) ==
    {s \in Orders(S) : \A i \in 1 .. (Len(s) - 1) : s[i][col] >= s[i + 1][col]}

\* the sequences that hold at place i one of the values in c[i]
Each(c) ==
    {f \in [1 .. Len(c) -> UNION {c[i] : i \in 1 .. Len(c)}] :
        \A i \in 1 .. Len(c) : f[i] \in c[i]}

\* with: { exercise: true, sets: { orderBy: asc(sets.setNumber) } }
WithSets(we) ==
    {we @@ [exercise |-> CHOOSE e \in exercises : e.id = we.exerciseId, sets |-> ss] :
        ss \in asc({s \in sets : s.workoutExerciseId = we.id}, "setNumber")}

WithWorkoutExercises_Unordered(w) ==
    {w @@ [workoutExercises |-> wes] :
        wes \in UNION {Each([i \in 1 .. Len(o) |-> WithSets(o[i])]) :
                         o \in Orders({we \in workoutExercises : we.workoutId = w.id})}}
\* with: { workoutExercises: { orderBy: asc(workoutExercises.order), with: ... } }
WithWorkoutExercises(w) ==
    {w @@ [workoutExercises |-> wes] :
        wes \in UNION {Each([i \in 1 .. Len(o) |-> WithSets(o[i])]) :
                         o \in asc({we \in workoutExercises : we.workoutId = w.id},
                                   "order")}}

\* db.query.workouts.findMany({ where, with, orderBy: desc(startedAt) })
FindMany(where) ==
    UNION {Each([i \in 1 .. Len(o) |-> WithWorkoutExercises(o[i])]) :
             o \in desc(Select(workouts, where), "startedAt")}

\* db.query.workouts.findFirst({ where, with })
FindFirst(where) ==
    IF Select(workouts, where) = {}
    THEN {Null}
    ELSE {Some(x) : x \in UNION {WithWorkoutExercises(w) : w \in Select(workouts, where)}}

(***************************************************************************)
(* data/workouts: the identity comes from auth().                          *)
(***************************************************************************)
\* startOfDay.setHours(0, 0, 0, 0) and endOfDay.setHours(23, 59, 59, 999);
\* an Invalid Date stays invalid
StartOfDay(date) == IF date = NaN THEN NaN ELSE date - (date % DayLen)
EndOfDay_NextMidnight(date) == IF date = NaN THEN NaN ELSE StartOfDay(date) + DayLen
EndOfDay(date) == IF date = NaN THEN NaN ELSE StartOfDay(date) + (DayLen - 1)

getUserWorkoutsByDateWhere(userId, date) ==
    and(eq("userId", userId),
        and(gte("startedAt", StartOfDay(date)), lt("startedAt", EndOfDay(date))))

\* getUserWorkoutsByDate(date): the possible results
getUserWorkoutsByDate(userId, date) ==
    IF userId = NoUser THEN {Fault("Unauthorized")}
    ELSE IF date = NaN THEN {Fault("Invalid time value")}
    ELSE {Ok(l) : l \in FindMany(getUserWorkoutsByDateWhere(userId, date))}

getUserWorkoutsByDateStmt(userId, date) ==
    IF userId = NoUser \/ date = NaN THEN NoStmt
    ELSE Stmt("select", "workouts", getUserWorkoutsByDateWhere(userId, date), userId)

\* getUserWorkouts(): the possible results
getUserWorkouts(userId) ==
    IF userId = NoUser THEN {Fault("Unauthorized")}
    ELSE {Ok(l) : l \in FindMany(eq("userId", userId))}

getUserWorkoutsStmt(userId) ==
    IF userId = NoUser THEN NoStmt
    ELSE Stmt("select", "workouts", eq("userId", userId), userId)

\* getUserWorkoutById(workoutId): the possible results
getUserWorkoutByIdWhere_IdOnly(userId, workoutId) == eq("id", workoutId)
getUserWorkoutByIdWhere(userId, workoutId) ==
    and(eq("id", workoutId), eq("userId", userId))

getUserWorkoutById(userId, workoutId) ==
    IF userId = NoUser THEN {Fault("Unauthorized")}
    ELSE {Ok(x) : x \in FindFirst(getUserWorkoutByIdWhere(userId, workoutId))}

getUserWorkoutByIdStmt(userId, workoutId) ==
    IF userId = NoUser THEN NoStmt
    ELSE Stmt("select", "workouts", getUserWorkoutByIdWhere(userId, workoutId), userId)

(***************************************************************************)
(* updateWorkout(workoutId, data) of data/workouts: a read that verifies   *)
(* ownership, then a write.  Other requests run between the two.           *)
(*   verify: auth(), the findFirst, the check of its result, and the SET   *)
(*           clause built with updatedAt: new Date();                      *)
(*   write:  the update statement executes and the call returns.           *)
(***************************************************************************)
updateWorkoutVerifyWhere_IdOnly(userId, workoutId) == eq("id", workoutId)
updateWorkoutVerifyWhere(userId, workoutId) ==
    and(eq("id", workoutId), eq("userId", userId))

\* .where(eq(workouts.id, workoutId))
updateWorkoutWriteWhere(userId, workoutId) == eq("id", workoutId)

\* what the verifying part throws, Null when it goes on to the write
updateWorkoutVerifyFault(table, userId, workoutId) ==
    IF userId = NoUser THEN Some("Unauthorized")
    ELSE IF Select(table, updateWorkoutVerifyWhere(userId, workoutId)) = {}
         THEN Some("Workout not found or unauthorized")
         ELSE Null

updateWorkoutVerifyStmt_BeforeAuth(userId, workoutId) ==
    Stmt("select", "workouts", updateWorkoutVerifyWhere(userId, workoutId), userId)
updateWorkoutVerifyStmt(userId, workoutId) ==
    IF userId = NoUser THEN NoStmt
    ELSE Stmt("select", "workouts", updateWorkoutVerifyWhere(userId, workoutId), userId)

\* .set({ ...data, updatedAt: new Date() })
updateWorkoutSet(data) == data @@ [updatedAt |-> now]

updateWorkoutWriteAccepted(table, call) ==
    /\ ParamsOk(call.setv)
    /\ \/ Select(table, updateWorkoutWriteWhere(call.by, call.workoutId)) = {}
       \/ WorkoutColumnsOk(call.setv)

\* const [updatedWorkout] = await db.update(...).returning(); return updatedWorkout
updateWorkoutWriteGives(table, call) ==
    IF updateWorkoutWriteAccepted(table, call)
    THEN Ok(First(UpdatedRows(table, updateWorkoutWriteWhere(call.by, call.workoutId),
                              call.setv)))
    ELSE Fault(IF ParamsOk(call.setv) THEN "value too long for type character varying(255)"
               ELSE "Invalid time value")

updateWorkoutWrite(call) ==
    /\ lastStmt' = IF ParamsOk(call.setv)
                   THEN Stmt("update", "workouts",
                             updateWorkoutWriteWhere(call.by, call.workoutId), call.by)
                   ELSE NoStmt
    /\ workouts' = IF updateWorkoutWriteAccepted(workouts, call)
                   THEN AfterUpdate(workouts,
                                    updateWorkoutWriteWhere(call.by, call.workoutId),
                                    call.setv)
                   ELSE workouts
    /\ UNCHANGED <<workoutExercises, sets, exercises, serial, now, createdBy>>

(***************************************************************************)
(* Server actions.                                                         *)
(***************************************************************************)
\* a string that holds a date: what Date.parse makes of it
IsoString(t) == [text |-> "iso", ms |-> t]
EmptyString == [text |-> "", ms |-> NaN]
GarbageString == [text |-> "garbage", ms |-> NaN]
Date_parse(str) == str.ms
Truthy(str) == str.text # ""

\* an object with the keys of obj that are in keys
Pick(obj, keys) == [k \in (DOMAIN obj) \cap keys |-> obj[k]]

AsResult(op, by, arg, g, paths) ==
    [op |-> op, by |-> by, arg |-> arg, out |-> g.out, value |-> g.value,
     error |-> g.error, revalidated |-> paths]

NoEffect ==
    /\ lastStmt' = NoStmt
    /\ UNCHANGED <<workouts, workoutExercises, sets, exercises, serial, now, upd,
                   createdBy>>

\* createWorkoutSchema: name string min(1) max(255) optional; startedAt a
\* string that Date.parse accepts
createWorkoutSchemaAccepts(input) ==
    /\ "name" \in DOMAIN input =>
          (Len(input.name) >= 1 /\ Len(input.name) <= MaxNameLen)
    /\ "startedAt" \in DOMAIN input
    /\ Date_parse(input.startedAt) # NaN

createWorkoutActionData_TrustsInput(userId, input) ==
    [k \in {"userId", "startedAt"} \cup ({"name"} \cap DOMAIN input) |->
        CASE k = "userId" -> IF "userId" \in DOMAIN input THEN input.userId ELSE userId
          [] k = "startedAt" -> Date_parse(input.startedAt)
          [] k = "name" -> input.name]
createWorkoutActionData_NameDropped(userId, input) ==
    [userId |-> userId, startedAt |-> Date_parse(input.startedAt)]
\* { userId, name: validatedData.name, startedAt: new Date(validatedData.startedAt) }
createWorkoutActionData(userId, input) ==
    [k \in {"userId", "startedAt"} \cup ({"name"} \cap DOMAIN input) |->
        CASE k = "userId" -> userId
          [] k = "startedAt" -> Date_parse(input.startedAt)
          [] k = "name" -> input.name]

createWorkoutAction(userId, input) ==
    /\ IF ~createWorkoutSchemaAccepts(input)
       THEN \* createWorkoutSchema.parse(input) throws, outside the try block
            /\ NoEffect
            /\ result' = Thrown("createWorkoutAction", userId, input, "ZodError")
       ELSE IF userId = NoUser
       THEN /\ NoEffect
            /\ result' = Returned("createWorkoutAction", userId, input,
                                  [success |-> FALSE, error |-> "Unauthorized"], {})
       ELSE /\ Dal_createWorkout(createWorkoutActionData(userId, input))
            /\ result' =
                 LET g == Dal_createWorkoutGives(createWorkoutActionData(userId, input))
                 IN  IF g.out = "return"
                     THEN Returned("createWorkoutAction", userId, input,
                                   [success |-> TRUE, workout |-> g.value],
                                   {"/dashboard"})
                     ELSE Returned("createWorkoutAction", userId, input,
                                   [success |-> FALSE,
                                    error |-> "Failed to create workout"], {})

updateData_ClearsCompletedAt(data) ==
    [k \in {"completedAt"} \cup ({"name"} \cap DOMAIN data) |->
        IF k = "name" THEN data.name
        ELSE IF "completedAt" \in DOMAIN data /\ data.completedAt # Null
                  /\ Truthy(data.completedAt[1])
             THEN Some(Date_parse(data.completedAt[1]))
             ELSE Null]
\* updateWorkoutAction, lines 13-31: the object handed to updateWorkout
updateData(data) ==
    [k \in {c \in (DOMAIN data) \cap {"name", "startedAt", "completedAt"} :
              CASE c = "name" -> TRUE
                [] c = "startedAt" -> Truthy(data.startedAt)
                [] c = "completedAt" ->
                     (data.completedAt = Null \/ Truthy(data.completedAt[1]))} |->
        CASE k = "name" -> data.name
          [] k = "startedAt" -> Date_parse(data.startedAt)
          [] k = "completedAt" ->
               IF data.completedAt = Null THEN Null
               ELSE Some(Date_parse(data.completedAt[1]))]

UpdateFaulted_Revalidates(call, message) ==
    IF call.action
    THEN Returned("updateWorkoutAction", call.by, call.arg,
                  [success |-> FALSE, error |-> message], {"/dashboard"})
    ELSE Thrown("updateWorkout", call.by, call.arg, message)
\* what the call in slot p gives when its verifying part throws:
\* updateWorkoutAction catches and returns error.message
UpdateFaulted(call, message) ==
    IF call.action
    THEN Returned("updateWorkoutAction", call.by, call.arg,
                  [success |-> FALSE, error |-> message], {})
    ELSE Thrown("updateWorkout", call.by, call.arg, message)

UpdateDone_Rethrows(call, g) ==
    IF g.out = "return"
    THEN Returned(IF call.action THEN "updateWorkoutAction" ELSE "updateWorkout",
                  call.by, call.arg,
                  IF call.action THEN [success |-> TRUE, workout |-> g.value] ELSE g.value,
                  {})
    ELSE Thrown(IF call.action THEN "updateWorkoutAction" ELSE "updateWorkout",
                call.by, call.arg, g.error)
\* what the call gives once its write statement has run
UpdateDone(call, g) ==
    IF ~call.action
    THEN AsResult("updateWorkout", call.by, call.arg, g, {})
    ELSE IF g.out = "return"
    THEN Returned("updateWorkoutAction", call.by, call.arg,
                  [success |-> TRUE, workout |-> g.value],
                  {"/dashboard", "/dashboard/workout/" \o ToString(call.workoutId)})
    ELSE Returned("updateWorkoutAction", call.by, call.arg,
                  [success |-> FALSE, error |-> g.error], {})

\* the call as it stands after the verifying read
UpdateCall(userId, workoutId, data, action, arg) ==
    [pc |-> "write", by |-> userId, workoutId |-> workoutId,
     setv |-> updateWorkoutSet(data), action |-> action, arg |-> arg]

\* first part of updateWorkout(workoutId, data), called directly
\* (action = FALSE) or from updateWorkoutAction
updateWorkoutVerify(p, userId, workoutId, data, action, arg) ==
    /\ upd[p].pc = "idle"
    /\ lastStmt' = updateWorkoutVerifyStmt(userId, workoutId)
    /\ IF updateWorkoutVerifyFault(workouts, userId, workoutId) = Null
       THEN /\ upd' = [upd EXCEPT ![p] = UpdateCall(userId, workoutId, data, action, arg)]
            /\ UNCHANGED result
       ELSE /\ UNCHANGED upd
            /\ result' = UpdateFaulted(
                           UpdateCall(userId, workoutId, data, action, arg),
                           updateWorkoutVerifyFault(workouts, userId, workoutId)[1])
    /\ UNCHANGED <<workouts, workoutExercises, sets, exercises, serial, now, createdBy>>

updateWorkout(p, userId, workoutId, data) ==
    updateWorkoutVerify(p, userId, workoutId, data, FALSE,
                        [workoutId |-> workoutId, data |-> data])

updateWorkoutAction(p, userId, data) ==
    updateWorkoutVerify(p, userId, data.workoutId, updateData(data), TRUE, data)

\* second part: the update statement, revalidatePath, return
updateWorkoutFinish(p) ==
    /\ upd[p].pc = "write"
    /\ updateWorkoutWrite(upd[p])
    /\ upd' = [upd EXCEPT ![p] = Idle]
    /\ result' = UpdateDone(upd[p], updateWorkoutWriteGives(workouts, upd[p]))

(***************************************************************************)
(* The same server actions when the database cannot be reached: the        *)
(* awaited query rejects with the driver's error and no statement runs.    *)
(***************************************************************************)
ConnectionError == "connect ECONNREFUSED"

\* createWorkoutAction: createWorkout rejects inside the try block
createWorkoutActionStorageDown(userId, input) ==
    /\ createWorkoutSchemaAccepts(input)
    /\ userId # NoUser
    /\ NoEffect
    /\ result' = Returned("createWorkoutAction", userId, input,
                          [success |-> FALSE, error |-> "Failed to create workout"], {})

\* updateWorkoutAction: the findFirst of updateWorkout rejects
updateWorkoutActionStorageDown(p, userId, data) ==
    /\ upd[p].pc = "idle"
    /\ userId # NoUser
    /\ NoEffect
    /\ result' = UpdateFaulted(UpdateCall(userId, data.workoutId, updateData(data), TRUE, data),
                               ConnectionError)

\* the update statement of updateWorkout rejects
updateWorkoutFinishStorageDown(p) ==
    /\ upd[p].pc = "write"
    /\ upd' = [upd EXCEPT ![p] = Idle]
    /\ lastStmt' = NoStmt
    /\ result' = UpdateDone(upd[p], Fault(ConnectionError))
    /\ UNCHANGED <<workouts, workoutExercises, sets, exercises, serial, now, createdBy>>

(***************************************************************************)
(* EditWorkoutPage: the server component of /dashboard/workout/[workoutId]. *)
(* A route segment is a sequence of characters.                            *)
(***************************************************************************)
DigitChars == <<"0", "1", "2", "3", "4", "5", "6", "7", "8", "9">>
Digits == {DigitChars[i] : i \in 1 .. Len(DigitChars)}
DigitValue(c) == (CHOOSE i \in 1 .. Len(DigitChars) : DigitChars[i] = c) - 1

\* the longest prefix of digits
RECURSIVE DigitPrefix(_)
DigitPrefix(s) ==
    IF s = <<>> \/ Head(s) \notin Digits THEN <<>>
    ELSE <<Head(s)>> \o DigitPrefix(Tail(s))

RECURSIVE Decimal(_)
Decimal(ds) ==
    IF ds = <<>> THEN 0
    ELSE Decimal(SubSeq(ds, 1, Len(ds) - 1)) * 10 + DigitValue(ds[Len(ds)])

\* parseInt(s, 10) of a string without sign or leading white space: the
\* value of the leading digits, whatever follows them; NaN without any
parseInt(s) == IF DigitPrefix(s) = <<>> THEN NaN ELSE Decimal(DigitPrefix(s))

NotFound == [rendered |-> "notFound", workout |-> Null]

\* what the page gives for the result of getUserWorkoutById
EditWorkoutPageGives(userId, segment, g) ==
    IF g.out = "throw"
    THEN Thrown("EditWorkoutPage", userId, [workoutId |-> segment], g.error)
    ELSE Returned("EditWorkoutPage", userId, [workoutId |-> segment],
                  IF g.value = Null THEN NotFound
                  ELSE [rendered |-> "form", workout |-> g.value], {})

EditWorkoutPage(userId, segment) ==
    /\ IF parseInt(segment) = NaN
       THEN /\ lastStmt' = NoStmt
            /\ result' = Returned("EditWorkoutPage", userId, [workoutId |-> segment],
                                  NotFound, {})
       ELSE /\ lastStmt' = getUserWorkoutByIdStmt(userId, parseInt(segment))
            /\ \E g \in getUserWorkoutById(userId, parseInt(segment)) :
                  result' = EditWorkoutPageGives(userId, segment, g)
    /\ UNCHANGED <<workouts, workoutExercises, sets, exercises, serial, now, upd,
                   createdBy>>

(***************************************************************************)
(* createWorkoutWithExercises(userId, workoutData, exercisesData): two     *)
(* inserts inside db.transaction.  Rows written inside the transaction are *)
(* held in the call's slot and reach the tables at commit; the sequence    *)
(* is advanced at once (nextval is not undone by a rollback).              *)
(***************************************************************************)
\* .values({ userId, ...workoutData }): a key of workoutData wins
TxValues(userId, workoutData) == workoutData @@ [userId |-> userId]

\* started_at is not null and has no default
TxInsertAccepted(vals) ==
    /\ "startedAt" \in DOMAIN vals
    /\ ParamsOk(vals)
    /\ WorkoutColumnsOk(vals)

TxArg(workoutData, exercisesData) ==
    [workoutData |-> workoutData, exercisesData |-> exercisesData]

createWorkoutWithExercises_NoTransaction(p, userId, workoutData, exercisesData) ==
    /\ upd[p].pc = "idle"
    /\ TxInsertAccepted(TxValues(userId, workoutData))
    /\ upd' = [upd EXCEPT ![p] =
                  [pc |-> "tx", by |-> userId,
                   row |-> InsertedWorkout(TxValues(userId, workoutData)),
                   arg |-> TxArg(workoutData, exercisesData)]]
    /\ workouts' = workouts \cup {InsertedWorkout(TxValues(userId, workoutData))}
    /\ serial' = [serial EXCEPT !.workouts = @ + 1]
    /\ createdBy' = Append(createdBy, TxValues(userId, workoutData).userId)
    /\ lastStmt' = Stmt("insert", "workouts", <<>>, userId)
    /\ UNCHANGED <<result, workoutExercises, sets, exercises, now>>
\* begin, and the insert into workouts: on rejection the callback throws and
\* the transaction is rolled back at once
createWorkoutWithExercises(p, userId, workoutData, exercisesData) ==
    /\ upd[p].pc = "idle"
    /\ lastStmt' = Stmt("insert", "workouts", <<>>, userId)
    /\ IF TxInsertAccepted(TxValues(userId, workoutData))
       THEN /\ upd' = [upd EXCEPT ![p] =
                         [pc |-> "tx", by |-> userId,
                          row |-> InsertedWorkout(TxValues(userId, workoutData)),
                          arg |-> TxArg(workoutData, exercisesData)]]
            /\ serial' = [serial EXCEPT !.workouts = @ + 1]
            /\ createdBy' = Append(createdBy, TxValues(userId, workoutData).userId)
            /\ UNCHANGED result
       ELSE /\ result' = Thrown("createWorkoutWithExercises", userId,
                                TxArg(workoutData, exercisesData), "storage error")
            /\ UNCHANGED <<upd, serial, createdBy>>
    /\ UNCHANGED <<workouts, workoutExercises, sets, exercises, now>>

\* const exercises = await tx.insert(exercises)...: the argument names the
\* constant being declared, which is not initialised yet, so evaluating it
\* throws a ReferenceError; the callback rejects and the transaction is
\* rolled back
createWorkoutWithExercisesFinish(p) ==
    /\ upd[p].pc = "tx"
    /\ upd' = [upd EXCEPT ![p] = Idle]
    /\ lastStmt' = NoStmt
    /\ result' = Thrown("createWorkoutWithExercises", upd[p].by, upd[p].arg,
                        "Cannot access 'exercises' before initialization")
    /\ UNCHANGED <<workouts, workoutExercises, sets, exercises, serial, now, createdBy>>

(***************************************************************************)
(* Client components.  A form's handleSubmit calls the server action       *)
(* inside startTransition and goes on once the action's result has         *)
(* arrived; in between the form is pending.  What handleSubmit did on the  *)
(* client is recorded as a result: the path given to router.push and the   *)
(* message given to setError.                                              *)
(***************************************************************************)
ServerActions == {"createWorkoutAction", "updateWorkoutAction"}

\* isPending of useTransition: a submission has started and has not settled
Pending ==
    \/ result.op \in ServerActions
    \/ \E p \in Procs : upd[p].pc = "write"

\* NewWorkoutPage: { name: name || undefined,
\*                   startedAt: startedAt || new Date().toISOString() }
NewWorkoutInput(form) ==
    [k \in {"startedAt"} \cup (IF form.name # "" THEN {"name"} ELSE {}) |->
        IF k = "name" THEN form.name
        ELSE IF Truthy(form.startedAt) THEN form.startedAt ELSE IsoString(now)]

\* NewWorkoutPage.handleSubmit up to the awaited createWorkoutAction; the
\* submit button is disabled while isPending
NewWorkoutPage_handleSubmit(userId, form) ==
    /\ ~Pending
    /\ createWorkoutAction(userId, NewWorkoutInput(form))

\* WorkoutEditForm: { workoutId: workout.id, name: name || undefined,
\*   startedAt: startedAt || undefined, completedAt: completedAt || null }
WorkoutEditInput(workoutId, form) ==
    [k \in {"workoutId", "completedAt"}
             \cup (IF form.name # "" THEN {"name"} ELSE {})
             \cup (IF Truthy(form.startedAt) THEN {"startedAt"} ELSE {}) |->
        CASE k = "workoutId" -> workoutId
          [] k = "name" -> form.name
          [] k = "startedAt" -> form.startedAt
          [] k = "completedAt" ->
               IF Truthy(form.completedAt) THEN Some(form.completedAt) ELSE Null]

\* WorkoutEditForm.handleSubmit up to the awaited updateWorkoutAction; the
\* form was rendered by the page for a workout of the user
WorkoutEditForm_handleSubmit(p, userId, workoutId, form) ==
    /\ ~Pending
    /\ workoutId \in 1 .. Len(createdBy)
    /\ createdBy[workoutId] = userId
    /\ updateWorkoutAction(p, userId, WorkoutEditInput(workoutId, form))

\* the Cancel button of either form: router.push('/dashboard'), disabled
\* while isPending
Cancel_onClick ==
    /\ ~Pending
    /\ result' = Returned("cancel", NoUser, <<>>,
                          [pushed |-> Some("/dashboard"), error |-> Null], {})
    /\ NoEffect

Settled_PushesAlways(awaited, fallback) ==
    [pushed |-> Some("/dashboard"), error |-> Null]
\* what handleSubmit does with the awaited result: router.push('/dashboard')
\* on success, setError otherwise, setError in the catch block
Settled(awaited, fallback) ==
    IF awaited.out = "throw"
    THEN [pushed |-> Null, error |-> Some("An unexpected error occurred")]
    ELSE IF awaited.value.success
    THEN [pushed |-> Some("/dashboard"), error |-> Null]
    ELSE [pushed |-> Null,
          error |-> Some(IF awaited.value.error # "" THEN awaited.value.error
                         ELSE fallback)]

\* the rest of handleSubmit, of either form
handleSubmitSettle ==
    /\ result.op \in ServerActions
    /\ result' = Returned("handleSubmit", result.by, result.arg,
                          Settled(result,
                                  IF result.op = "createWorkoutAction"
                                  THEN "Failed to create workout"
                                  ELSE "Failed to update workout"),
                          result.revalidated)
    /\ NoEffect

(***************************************************************************)
(* Calls of the helpers, recorded with what they give.                     *)
(***************************************************************************)
ReadOnly ==
    UNCHANGED <<workouts, workoutExercises, sets, exercises, serial, now, upd,
                createdBy>>

Call_createWorkout(data) ==
    /\ Dal_createWorkout(data)
    /\ result' = AsResult("createWorkout", data.userId, data,
                          Dal_createWorkoutGives(data), {})

Call_Dal_updateWorkout(id, userId, data) ==
    /\ Dal_updateWorkout(id, userId, data)
    /\ result' = AsResult("Dal_updateWorkout", userId, [id |-> id, data |-> data],
                          Dal_updateWorkoutGives(workouts, id, userId, data), {})

Call_deleteWorkout(id, userId) ==
    /\ Dal_deleteWorkout(id, userId)
    /\ result' = AsResult("deleteWorkout", userId, [id |-> id],
                          Dal_deleteWorkoutGives(workouts, id, userId), {})

Call_getWorkout(id, userId) ==
    /\ lastStmt' = Dal_getWorkoutStmt(id, userId)
    /\ result' = AsResult("getWorkout", userId, [id |-> id],
                          Dal_getWorkoutGives(workouts, id, userId), {})
    /\ ReadOnly

Call_getUserWorkoutById(userId, workoutId) ==
    /\ lastStmt' = getUserWorkoutByIdStmt(userId, workoutId)
    /\ \E g \in getUserWorkoutById(userId, workoutId) :
          result' = AsResult("getUserWorkoutById", userId, [id |-> workoutId], g, {})
    /\ ReadOnly

Call_getUserWorkouts(userId) ==
    /\ lastStmt' = getUserWorkoutsStmt(userId)
    /\ \E g \in getUserWorkouts(userId) :
          result' = AsResult("getUserWorkouts", userId, <<>>, g, {})
    /\ ReadOnly

Call_getUserWorkoutsByDate(userId, date) ==
    /\ lastStmt' = getUserWorkoutsByDateStmt(userId, date)
    /\ \E g \in getUserWorkoutsByDate(userId, date) :
          result' = AsResult("getUserWorkoutsByDate", userId, [date |-> date], g, {})
    /\ ReadOnly

(***************************************************************************)
(* Rows of exercises, workout_exercises and sets: the statements the       *)
(* schema admits on them.                                                  *)
(***************************************************************************)
Statement(op) ==
    /\ lastStmt' = Stmt(op, "other", <<>>, NoUser)
    /\ result' = NoResult
    /\ UNCHANGED <<now, upd, createdBy>>

\* exercises: name unique not null
InsertExercise(name) ==
    /\ \A e \in exercises : e.name # name
    /\ exercises' = exercises \cup {[id |-> serial.exercises + 1, name |-> name]}
    /\ serial' = [serial EXCEPT !.exercises = @ + 1]
    /\ Statement("insert")
    /\ UNCHANGED <<workouts, workoutExercises, sets>>

\* workout_exercises: workout_id and exercise_id reference existing rows
InsertWorkoutExercise_UniqueOrder(workoutId, exerciseId, order) ==
    /\ workoutId \in {w.id : w \in workouts}
    /\ exerciseId \in {e.id : e \in exercises}
    /\ \A we \in workoutExercises : ~(we.workoutId = workoutId /\ we.order = order)
    /\ workoutExercises' = workoutExercises \cup
          {[id |-> serial.workoutExercises + 1, workoutId |-> workoutId,
            exerciseId |-> exerciseId, order |-> order]}
    /\ serial' = [serial EXCEPT !.workoutExercises = @ + 1]
    /\ Statement("insert")
    /\ UNCHANGED <<workouts, exercises, sets>>
InsertWorkoutExercise(workoutId, exerciseId, order) ==
    /\ workoutId \in {w.id : w \in workouts}
    /\ exerciseId \in {e.id : e \in exercises}
    /\ workoutExercises' = workoutExercises \cup
          {[id |-> serial.workoutExercises + 1, workoutId |-> workoutId,
            exerciseId |-> exerciseId, order |-> order]}
    /\ serial' = [serial EXCEPT !.workoutExercises = @ + 1]
    /\ Statement("insert")
    /\ UNCHANGED <<workouts, exercises, sets>>

\* sets: workout_exercise_id references an existing row
InsertSet(workoutExerciseId, setNumber, weight, reps) ==
    /\ workoutExerciseId \in {we.id : we \in workoutExercises}
    /\ sets' = sets \cup
          {[id |-> serial.sets + 1, workoutExerciseId |-> workoutExerciseId,
            setNumber |-> setNumber, weight |-> weight, reps |-> reps]}
    /\ serial' = [serial EXCEPT !.sets = @ + 1]
    /\ Statement("insert")
    /\ UNCHANGED <<workouts, exercises, workoutExercises>>

\* delete from exercises where id = ...: the foreign keys cascade
DeleteExercise(id) ==
    /\ id \in {e.id : e \in exercises}
    /\ exercises' = {e \in exercises : e.id # id}
    /\ workoutExercises' =
          WorkoutExercisesAfterDelete({}, {e \in exercises : e.id = id})
    /\ sets' = SetsAfterDelete(
                  WorkoutExercisesAfterDelete({}, {e \in exercises : e.id = id}))
    /\ lastStmt' = Stmt("delete", "other", eq("id", id), NoUser)
    /\ result' = Returned("deleteExercise", NoUser, [id |-> id], Null, {})
    /\ UNCHANGED <<workouts, serial, now, upd, createdBy>>

\* time passes
Tick ==
    /\ now' = now + 1
    /\ UNCHANGED <<workouts, workoutExercises, sets, exercises, serial, upd, result,
                   lastStmt, createdBy>>

Init ==
    /\ workouts = {}
    /\ workoutExercises = {}
    /\ sets = {}
    /\ exercises = {}
    /\ serial = [workouts |-> 0, workoutExercises |-> 0, sets |-> 0, exercises |-> 0]
    /\ now = 0
    /\ upd = [p \in Procs |-> Idle]
    /\ result = NoResult
    /\ lastStmt = NoStmt
    /\ createdBy = <<>>

(***************************************************************************)
(* Spec: requests of two users against the workouts table and its child    *)
(* rows.  Each user has one request that may be inside updateWorkout, and  *)
(* every other request runs between its two statements.                    *)
(***************************************************************************)
WorkoutIds == 1 .. MaxWorkouts
\* the session a request slot belongs to
UserOf(p) == IF p = 1 THEN "u1" ELSE "u2"

UpdateInputs == {[workoutId |-> id, name |-> "B"] : id \in WorkoutIds}

Next ==
    \/ \E u \in Users :
          /\ serial.workouts < MaxWorkouts
          /\ Call_createWorkout([userId |-> u, startedAt |-> 1])
    \/ \E p \in Procs, data \in UpdateInputs : updateWorkoutAction(p, UserOf(p), data)
    \/ \E p \in Procs, id \in WorkoutIds :
          updateWorkout(p, UserOf(p), id, [completedAt |-> Some(2)])
    \/ \E p \in Procs : updateWorkoutFinish(p)
    \/ \E u \in Users, id \in WorkoutIds :
          Call_Dal_updateWorkout(id, u, [completedAt |-> Some(2)])
    \/ \E u \in Users, id \in WorkoutIds : Call_deleteWorkout(id, u)
    \/ \E u \in Users, id \in WorkoutIds : Call_getWorkout(id, u)
    \/ \E u \in Users, id \in WorkoutIds : Call_getUserWorkoutById(u, id)
    \/ /\ serial.exercises < MaxChildren
       /\ InsertExercise("squat")
    \/ \E w \in WorkoutIds :
          /\ serial.workoutExercises < MaxChildren
          /\ InsertWorkoutExercise(w, 1, 1)
    \/ /\ serial.sets < MaxChildren
       /\ InsertSet(1, 1, 100, 5)

Spec == Init /\ [][Next]_vars

(***************************************************************************)
(* SpecFields: one user, one workout, inputs that supply every subset of   *)
(* the fields, valid and invalid, while the clock runs.                    *)
(***************************************************************************)
Subsets(full, required) ==
    {Pick(full, required \cup extra) : extra \in SUBSET (DOMAIN full)}

FieldsCreateInputs ==
    UNION {Subsets([name |-> n, startedAt |-> s], {}) :
             n \in {"A", "", LongName},
             s \in {IsoString(1), EmptyString, GarbageString}}

FieldsUpdateInputs ==
    UNION {Subsets([workoutId |-> 1, name |-> n, startedAt |-> s, completedAt |-> c],
                   {"workoutId"}) :
             n \in {"B", ""}, s \in {IsoString(2), EmptyString},
             c \in {Null, Some(IsoString(3))}}
    \cup {[workoutId |-> 1, name |-> LongName],
          [workoutId |-> 1, startedAt |-> GarbageString],
          [workoutId |-> 1, completedAt |-> Some(EmptyString)],
          [workoutId |-> 1, completedAt |-> Some(GarbageString)]}

FieldsPayloads ==
    Subsets([name |-> "C", startedAt |-> 2, completedAt |-> Some(3)], {})

NextFields ==
    \/ \E input \in FieldsCreateInputs :
          /\ serial.workouts < FieldsMaxWorkouts
          /\ createWorkoutAction("u1", input)
    \/ \E data \in {[userId |-> "u1", startedAt |-> 1],
                    [userId |-> "u1", name |-> "A", startedAt |-> 1]} :
          /\ serial.workouts < FieldsMaxWorkouts
          /\ Call_createWorkout(data)
    \/ \E data \in FieldsUpdateInputs : updateWorkoutAction(1, "u1", data)
    \/ \E data \in FieldsPayloads : updateWorkout(1, "u1", 1, data)
    \/ updateWorkoutFinish(1)
    \/ Call_getWorkout(1, "u1")
    \/ Call_getUserWorkoutById("u1", 1)
    \/ /\ now < MaxClock
       /\ Tick

SpecFields == Init /\ [][NextFields]_vars

(***************************************************************************)
(* SpecTree: the workouts of a user with their exercises and sets; rows    *)
(* are inserted with any position and set number, workouts and exercises   *)
(* are deleted, and the helpers that include the children read the result. *)
(***************************************************************************)
TreeWorkoutIds == 1 .. TreeMaxWorkouts

NextTree ==
    \/ /\ serial.workouts < TreeMaxWorkouts
       /\ Call_createWorkout([userId |-> "u1", startedAt |-> 1])
    \/ \E id \in TreeWorkoutIds : Call_deleteWorkout(id, "u1")
    \/ /\ serial.exercises < MaxExercises
       /\ InsertExercise("squat")
    \/ \E w \in TreeWorkoutIds, e \in 1 .. MaxExercises, order \in {1, 2} :
          /\ serial.workoutExercises < MaxWorkoutExercises
          /\ InsertWorkoutExercise(w, e, order)
    \/ \E we \in 1 .. MaxWorkoutExercises, setNumber \in {1, 2} :
          /\ serial.sets < MaxSets
          /\ InsertSet(we, setNumber, 100, 5)
    \/ \E e \in 1 .. MaxExercises : DeleteExercise(e)
    \/ \E id \in TreeWorkoutIds : Call_getUserWorkoutById("u1", id)
    \/ Call_getUserWorkouts("u1")
    \/ Call_getUserWorkoutsByDate("u1", 1)

SpecTree == Init /\ [][NextTree]_vars

(***************************************************************************)
(* SpecDate: workouts of two users started at any instant of the days,     *)
(* read back for any instant.                                              *)
(***************************************************************************)
NextDate ==
    \/ \E u \in Users, t \in Times :
          /\ serial.workouts < DateMaxWorkouts
          /\ Call_createWorkout([userId |-> u, startedAt |-> t])
    \/ \E u \in Users, id \in 1 .. DateMaxWorkouts : Call_deleteWorkout(id, u)
    \/ \E u \in Users, date \in Times : Call_getUserWorkoutsByDate(u, date)

SpecDate == Init /\ [][NextDate]_vars

(***************************************************************************)
(* SpecAuth: requests with and without a session call the server actions   *)
(* and the helpers that resolve the identity themselves; inputs are valid, *)
(* invalid, and carry a userId field of their own.                         *)
(***************************************************************************)
AuthWorkoutIds == 1 .. AuthMaxWorkouts

AuthCreateInputs ==
    {[startedAt |-> IsoString(1)],
     [name |-> "A", startedAt |-> IsoString(1), userId |-> "u2"],
     [name |-> "", startedAt |-> IsoString(1)],
     [startedAt |-> GarbageString]}

AuthUpdateInputs ==
    UNION {{[workoutId |-> id, name |-> "B"],
            [workoutId |-> id, name |-> "B", userId |-> "u2"],
            [workoutId |-> id, name |-> ""]} : id \in AuthWorkoutIds}

NextAuth ==
    \/ \E i \in Identities, input \in AuthCreateInputs :
          /\ serial.workouts < AuthMaxWorkouts
          /\ createWorkoutAction(i, input)
    \/ \E i \in Identities, data \in AuthUpdateInputs : updateWorkoutAction(1, i, data)
    \/ updateWorkoutFinish(1)
    \/ \E i \in Identities, id \in AuthWorkoutIds : Call_getUserWorkoutById(i, id)
    \/ \E i \in Identities : Call_getUserWorkouts(i)
    \/ \E i \in Identities : Call_getUserWorkoutsByDate(i, 1)

SpecAuth == Init /\ [][NextAuth]_vars

(***************************************************************************)
(* SpecStorage: the server actions of one user while the database accepts, *)
(* rejects a value, or cannot be reached.                                  *)
(***************************************************************************)
StorageCreateInputs == {[startedAt |-> IsoString(1)], [name |-> "A", startedAt |-> IsoString(1)]}

StorageUpdateInputs ==
    UNION {{[workoutId |-> id, name |-> "B"],
            [workoutId |-> id, name |-> LongName],
            [workoutId |-> id, startedAt |-> GarbageString]} :
             id \in 1 .. StorageMaxWorkouts}

NextStorage ==
    \/ \E input \in StorageCreateInputs :
          /\ serial.workouts < StorageMaxWorkouts
          /\ createWorkoutAction("u1", input)
    \/ \E input \in StorageCreateInputs : createWorkoutActionStorageDown("u1", input)
    \/ \E data \in StorageUpdateInputs : updateWorkoutAction(1, "u1", data)
    \/ \E data \in StorageUpdateInputs : updateWorkoutActionStorageDown(1, "u1", data)
    \/ updateWorkoutFinish(1)
    \/ updateWorkoutFinishStorageDown(1)

SpecStorage == Init /\ [][NextStorage]_vars

(***************************************************************************)
(* SpecLife: a workout of one user is created, completed, reopened,        *)
(* renamed, restarted and deleted, by two requests at a time.              *)
(***************************************************************************)
LifeWorkoutIds == 1 .. LifeMaxWorkouts

LifeUpdateInputs ==
    UNION {Subsets([workoutId |-> id, name |-> "B", startedAt |-> IsoString(2),
                    completedAt |-> c], {"workoutId"}) :
             id \in LifeWorkoutIds,
             c \in {Null, Some(IsoString(1)), Some(IsoString(3)), Some(EmptyString),
                    Some(GarbageString)}}

LifePayloads == {[name |-> "C"], [completedAt |-> Some(3)], [name |-> "C", completedAt |-> Some(3)]}

NextLife ==
    \/ /\ serial.workouts < LifeMaxWorkouts
       /\ createWorkoutAction("u1", [startedAt |-> IsoString(1)])
    \/ \E p \in Procs, data \in LifeUpdateInputs : updateWorkoutAction(p, "u1", data)
    \/ \E p \in Procs : updateWorkoutFinish(p)
    \/ \E id \in LifeWorkoutIds, data \in LifePayloads :
          Call_Dal_updateWorkout(id, "u1", data)
    \/ \E id \in LifeWorkoutIds : Call_deleteWorkout(id, "u1")

SpecLife == Init /\ [][NextLife]_vars

(***************************************************************************)
(* SpecPage: two users drive the pages and forms of the application.       *)
(***************************************************************************)
PageWorkoutIds == 1 .. PageMaxWorkouts

NewWorkoutForms ==
    {[name |-> "", startedAt |-> EmptyString],
     [name |-> "A", startedAt |-> IsoString(1)],
     [name |-> LongName, startedAt |-> IsoString(1)],
     [name |-> "A", startedAt |-> GarbageString]}

WorkoutEditForms ==
    {[name |-> "B", startedAt |-> IsoString(2), completedAt |-> EmptyString],
     [name |-> "", startedAt |-> EmptyString, completedAt |-> IsoString(3)],
     [name |-> LongName, startedAt |-> IsoString(2), completedAt |-> EmptyString]}

RECURSIVE Strings(_)
Strings(n) ==
    IF n = 0 THEN {<<>>}
    ELSE Strings(n - 1) \cup {Append(s, c) : s \in Strings(n - 1), c \in {"1", "2", "a"}}

Segments == Strings(MaxSegmentLen) \ {<<>>}

\* one browser tab: the forms' requests are those of slot 1, and the user
\* stays on the form until the submission has settled
NextPage ==
    \/ \E u \in Identities, form \in NewWorkoutForms :
          /\ serial.workouts < PageMaxWorkouts
          /\ NewWorkoutPage_handleSubmit(u, form)
    \/ \E u \in Users, id \in PageWorkoutIds, form \in WorkoutEditForms :
          WorkoutEditForm_handleSubmit(1, u, id, form)
    \/ updateWorkoutFinish(1)
    \/ handleSubmitSettle
    \/ Cancel_onClick
    \/ \E u \in Identities, segment \in Segments :
          /\ ~Pending
          /\ EditWorkoutPage(u, segment)
    \/ \E u \in Users, id \in PageWorkoutIds :
          /\ result.op \notin ServerActions
          /\ Call_deleteWorkout(id, u)

SpecPage == Init /\ [][NextPage]_vars

(***************************************************************************)
(* SpecTx: a user creates workouts alone and together with exercises,      *)
(* two requests at a time, while the lists are read.                       *)
(***************************************************************************)
TxWorkoutData ==
    {[startedAt |-> 1], [name |-> "A", startedAt |-> 1], [name |-> "A"],
     [name |-> LongName, startedAt |-> 1]}

TxExercisesData == {<<>>, <<[exerciseId |-> 1, order |-> 1]>>}

NextTx ==
    \/ /\ serial.workouts < TxMaxWorkouts
       /\ Call_createWorkout([userId |-> "u1", startedAt |-> 1])
    \/ \E p \in Procs, data \in TxWorkoutData, exs \in TxExercisesData :
          /\ serial.workouts < TxMaxWorkouts
          /\ createWorkoutWithExercises(p, "u1", data, exs)
    \/ \E p \in Procs : createWorkoutWithExercisesFinish(p)
    \/ /\ serial.exercises < MaxExercises
       /\ InsertExercise("squat")
    \/ Call_getUserWorkouts("u1")
    \/ \E id \in 1 .. TxMaxWorkouts : Call_getUserWorkoutById("u1", id)

SpecTx == Init /\ [][NextTx]_vars

(***************************************************************************)
(* SpecClock: one user, two requests at a time calling updateWorkout on    *)
(* the same workout while the clock advances.                              *)
(***************************************************************************)
ClockWorkoutIds == 1 .. ClockMaxWorkouts

ClockPayloads ==
    {[name |-> "A"], [name |-> "B"], [completedAt |-> Some(2)], [completedAt |-> Null],
     [name |-> "B", completedAt |-> Some(1)]}

NextClock ==
    \/ /\ serial.workouts < ClockMaxWorkouts
       /\ Call_createWorkout([userId |-> "u1", startedAt |-> 0])
    \/ \E p \in Procs, id \in ClockWorkoutIds, data \in ClockPayloads :
          updateWorkout(p, "u1", id, data)
    \/ \E p \in Procs : updateWorkoutFinish(p)
    \/ /\ now < ClockMax
       /\ Tick

SpecClock == Init /\ [][NextClock]_vars

(***************************************************************************)
(* Properties.                                                             *)
(***************************************************************************)
\* the workout row with this id, as a set
RowOf(id) == {w \in workouts : w.id = id}
\* ids of rows that exist and were created under another identity than u
ForeignIds(u) == {w.id : w \in {x \in workouts : createdBy[x.id] # u}}

\* C1: a workout created under identity U is never returned to another
\* identity U2: getWorkout(W.id, U2) and getUserWorkoutById(W.id) called
\* under U2 give absence, in every reachable state.
C1_ReadIsolation ==
    /\ \A u2 \in Users : \A id \in ForeignIds(u2) :
          /\ Dal_getWorkoutGives(workouts, id, u2) = Ok(Null)
          /\ getUserWorkoutById(u2, id) = {Ok(Null)}
    /\ (result.op \in {"getWorkout", "getUserWorkoutById"}
          /\ result.arg.id \in ForeignIds(result.by))
       => (result.out = "return" /\ result.value = Null)

C1_Witness ==
    /\ result.op = "getUserWorkoutById"
    /\ result.arg.id \in ForeignIds(result.by)
    /\ result.value = Null
    /\ \E w \in RowOf(result.arg.id) : w.name = Some("B")

\* C2: no step of a request running under identity U changes or removes a
\* workout row whose userId is not U, nor removes a workout_exercises or
\* sets row below such a workout.
OwnerOfWorkoutExercise(we) == {w.userId : w \in RowOf(we.workoutId)}
OwnerOfSet(s) ==
    UNION {OwnerOfWorkoutExercise(we) :
             we \in {x \in workoutExercises : x.id = s.workoutExerciseId}}

C2_WriteIsolation ==
    [][/\ \A w \in workouts : w \notin workouts' => lastStmt'.by = w.userId
       /\ \A we \in workoutExercises :
             we \notin workoutExercises' => OwnerOfWorkoutExercise(we) = {lastStmt'.by}
       /\ \A s \in sets : s \notin sets' => OwnerOfSet(s) = {lastStmt'.by}]_vars

C2_Witness ==
    /\ result.op = "deleteWorkout"
    /\ result.arg.id \in ForeignIds(result.by)
    /\ \E we \in workoutExercises :
          /\ we.workoutId = result.arg.id
          /\ \E s \in sets : s.workoutExerciseId = we.id
    /\ \E p \in Procs : upd[p].pc = "write" /\ upd[p].workoutId = result.arg.id

\* C3 (as claimed): every select, update and delete statement on workouts
\* carries the predicate userId = caller in its WHERE clause.
HasOwnerPredicate(stmt) ==
    \E i \in 1 .. Len(stmt.where) :
        /\ stmt.where[i].col = "userId"
        /\ stmt.where[i].op = "eq"
        /\ stmt.where[i].val = stmt.by

C3_OwnerPredicateInEveryStatement ==
    (lastStmt.table = "workouts" /\ lastStmt.kind \in {"select", "update", "delete"})
       => HasOwnerPredicate(lastStmt)

\* C4: what a caller is given for an id that exists under another owner is
\* what it is given for an id that does not exist: the outcome of
\* getWorkout, deleteWorkout, both updateWorkout and updateWorkoutAction is
\* the same with the foreign row in the table and without it.
LeakProbes == {[name |-> "B"], [name |-> LongName], [completedAt |-> Some(NaN)]}

C4_ExistenceNotLeaked ==
    \A u \in Users : \A id \in ForeignIds(u) :
        LET without == workouts \ RowOf(id)
        IN  /\ Dal_getWorkoutGives(workouts, id, u) = Dal_getWorkoutGives(without, id, u)
            /\ Dal_deleteWorkoutGives(workouts, id, u) =
                  Dal_deleteWorkoutGives(without, id, u)
            /\ \A data \in LeakProbes :
                  Dal_updateWorkoutGives(workouts, id, u, data) =
                     Dal_updateWorkoutGives(without, id, u, data)
            /\ updateWorkoutVerifyFault(workouts, u, id) # Null
            /\ updateWorkoutVerifyFault(workouts, u, id) =
                  updateWorkoutVerifyFault(without, u, id)
            /\ \A p \in Procs : ~(upd[p].pc = "write" /\ upd[p].by = u
                                   /\ upd[p].workoutId = id)

C4_Witness ==
    /\ result.op = "updateWorkoutAction"
    /\ result.arg.workoutId \in ForeignIds(result.by)
    /\ result.value = [success |-> FALSE, error |-> "Workout not found or unauthorized"]

\* C5: the write of updateWorkout leaves every one of name, startedAt and
\* completedAt that the payload (for updateWorkoutAction: the input) does
\* not supply as it was, leaves id, userId and createdAt as they were, and
\* leaves every other row alone.
Supplied(call) == IF call.action THEN DOMAIN call.arg ELSE DOMAIN call.arg.data

FrameOf(call) ==
    /\ \A w \in workouts : w.id # call.workoutId => w \in workouts'
    /\ \A w \in RowOf(call.workoutId) :
          \E w2 \in workouts' :
             /\ w2.id = w.id /\ w2.userId = w.userId /\ w2.createdAt = w.createdAt
             /\ \A c \in {"name", "startedAt", "completedAt"} \ Supplied(call) :
                   w2[c] = w[c]

C5_PartialUpdateFrame ==
    [][\A p \in Procs :
          (upd[p].pc = "write" /\ upd'[p].pc = "idle") => FrameOf(upd[p])]_vars

C5_Witness ==
    /\ result.op = "updateWorkoutAction"
    /\ DOMAIN result.arg = {"workoutId", "name"}
    /\ result.value.success
    /\ \E w \in workouts :
          /\ result.value.workout = Some(w)
          /\ w.name = Some("B") /\ w.startedAt = 2 /\ w.completedAt = Some(3)
          /\ w.updatedAt > w.createdAt

\* C9: in the state a successful createWorkout or createWorkoutAction
\* leaves, a read by id under the same identity gives the row with the
\* supplied userId, name and startedAt, completedAt null and
\* createdAt = updatedAt.
CreatedRow == IF result.op = "createWorkout" THEN result.value ELSE result.value.workout
SuppliedName ==
    IF "name" \in DOMAIN result.arg THEN Some(result.arg.name) ELSE Null
SuppliedStartedAt ==
    IF result.op = "createWorkout" THEN result.arg.startedAt
    ELSE Date_parse(result.arg.startedAt)
JustCreated ==
    \/ result.op = "createWorkout" /\ result.out = "return"
    \/ result.op = "createWorkoutAction" /\ result.out = "return" /\ result.value.success

RoundTrip(read) ==
    /\ read.out = "return"
    /\ read.value # Null
    /\ read.value[1].id = CreatedRow[1].id
    /\ read.value[1].userId = result.by
    /\ read.value[1].name = SuppliedName
    /\ read.value[1].startedAt = SuppliedStartedAt
    /\ read.value[1].completedAt = Null
    /\ read.value[1].createdAt = read.value[1].updatedAt

C9_CreateReadRoundTrip ==
    JustCreated =>
       /\ CreatedRow # Null
       /\ RoundTrip(Dal_getWorkoutGives(workouts, CreatedRow[1].id, result.by))
       /\ \A read \in getUserWorkoutById(result.by, CreatedRow[1].id) : RoundTrip(read)

C9_Witness ==
    /\ result.op = "createWorkoutAction"
    /\ result.out = "return" /\ result.value.success
    /\ "name" \in DOMAIN result.arg
    /\ now > 0
    /\ Dal_getWorkoutGives(workouts, CreatedRow[1].id, result.by).value[1].createdAt = now

\* C10 (as claimed): an input that breaks a declared rule (name of 1..255
\* characters, startedAt and completedAt a date when given) makes
\* createWorkoutAction and updateWorkoutAction return success = false; they
\* do not throw.
DateOk(str) == Date_parse(str) # NaN
DeclaredRulesHold(op, input) ==
    /\ "name" \in DOMAIN input =>
          (Len(input.name) >= 1 /\ Len(input.name) <= MaxNameLen)
    /\ "startedAt" \in DOMAIN input => DateOk(input.startedAt)
    /\ op = "createWorkoutAction" => "startedAt" \in DOMAIN input
    /\ "completedAt" \in DOMAIN input =>
          (input.completedAt = Null \/ DateOk(input.completedAt[1]))

C10_ValidationFailureIsValue ==
    (/\ result.op \in {"createWorkoutAction", "updateWorkoutAction"}
     /\ ~DeclaredRulesHold(result.op, result.arg))
       => (result.out = "return" /\ ~result.value.success)

\* C6: every workout_exercises row references an existing workout and an
\* existing exercise, every sets row an existing workout_exercises row; once
\* deleteWorkout has removed W no workout_exercises row of W and no set
\* below one is left, and once an exercise is deleted none of its
\* workout_exercises rows and none of their sets is left.
SetsBelow(wes) == {s \in sets : s.workoutExerciseId \in {we.id : we \in wes}}

C6_CascadeAndReferentialIntegrity ==
    /\ \A we \in workoutExercises :
          /\ \E w \in workouts : w.id = we.workoutId
          /\ \E e \in exercises : e.id = we.exerciseId
    /\ \A s \in sets : \E we \in workoutExercises : we.id = s.workoutExerciseId
    /\ (result.op = "deleteWorkout" /\ result.value # Null) =>
          /\ {we \in workoutExercises : we.workoutId = result.value[1].id} = {}
          /\ \A s \in sets : s.workoutExerciseId \in {we.id : we \in workoutExercises}
    /\ result.op = "deleteExercise" =>
          {we \in workoutExercises : we.exerciseId = result.arg.id} = {}

\* a workout with a set below it was deleted, and another workout keeps its own
C6_Witness ==
    /\ result.op = "deleteWorkout" /\ result.value # Null
    /\ serial.sets > 0 /\ sets = {}
    /\ serial.workoutExercises = 2 /\ Cardinality(workoutExercises) = 1

\* C7: getUserWorkoutsByDate for an instant of day D under identity U gives
\* exactly the workouts of U with D 00:00:00.000 <= startedAt < D 23:59:59.999,
\* each once, in descending order of startedAt.
Midnight(date) == (date \div DayLen) * DayLen
LastInstant(date) == Midnight(date) + DayLen - 1
InWindow(u, date) ==
    {w \in workouts :
        w.userId = u /\ Midnight(date) <= w.startedAt /\ w.startedAt < LastInstant(date)}
Listed(list) == {list[i].id : i \in 1 .. Len(list)}

ExactlyTheWindow(g, u, date) ==
    /\ g.out = "return"
    /\ Listed(g.value) = {w.id : w \in InWindow(u, date)}
    /\ Len(g.value) = Cardinality(InWindow(u, date))
    /\ \A i \in 1 .. Len(g.value) :
          \E w \in InWindow(u, date) :
             /\ w.id = g.value[i].id
             /\ w.startedAt = g.value[i].startedAt /\ w.userId = g.value[i].userId
    /\ \A i \in 1 .. (Len(g.value) - 1) : g.value[i].startedAt >= g.value[i + 1].startedAt

NestedOk(w) ==
    /\ \A i \in 1 .. Len(w.workoutExercises) :
          /\ w.workoutExercises[i].workoutId = w.id
          /\ w.workoutExercises[i] \in
                {we @@ [exercise |-> w.workoutExercises[i].exercise,
                        sets |-> w.workoutExercises[i].sets] : we \in workoutExercises}
          /\ \A k \in 1 .. Len(w.workoutExercises[i].sets) :
                /\ w.workoutExercises[i].sets[k].workoutExerciseId =
                      w.workoutExercises[i].id
                /\ w.workoutExercises[i].sets[k] \in sets
          /\ \A k \in 1 .. (Len(w.workoutExercises[i].sets) - 1) :
                w.workoutExercises[i].sets[k].setNumber <=
                   w.workoutExercises[i].sets[k + 1].setNumber
    /\ \A i \in 1 .. (Len(w.workoutExercises) - 1) :
          w.workoutExercises[i].order <= w.workoutExercises[i + 1].order

\* (the value of getUserWorkoutById is the workout or nothing, a list too)
ListOk(g) == g.out = "return" /\ \A i \in 1 .. Len(g.value) : NestedOk(g.value[i])

C8_NestedOrdering ==
    result.op \in {"getUserWorkouts", "getUserWorkoutsByDate", "getUserWorkoutById"}
       => ListOk(result)

\* a workout read back with two exercises at different positions, inserted
\* in the other order, the first of them with two sets inserted out of order
C8_Witness ==
    /\ result.op = "getUserWorkoutById"
    /\ result.value # Null
    /\ Len(result.value[1].workoutExercises) = 2
    /\ result.value[1].workoutExercises[1].order < result.value[1].workoutExercises[2].order
    /\ result.value[1].workoutExercises[1].id > result.value[1].workoutExercises[2].id
    /\ Len(result.value[1].workoutExercises[1].sets) = 2
    /\ result.value[1].workoutExercises[1].sets[1].id >
          result.value[1].workoutExercises[1].sets[2].id

\* C11 (as claimed): without a session createWorkoutAction and
\* updateWorkoutAction end with the Unauthorized failure, whatever the input.
C11_UnauthorizedWhateverTheInput ==
    (result.by = NoUser /\ result.op \in {"createWorkoutAction", "updateWorkoutAction"})
       => /\ result.out = "return"
          /\ result.value = [success |-> FALSE, error |-> "Unauthorized"]

\* C12: a call without a session changes no table, sends no statement and
\* revalidates no path: createWorkoutAction, updateWorkoutAction,
\* getUserWorkoutsByDate, getUserWorkouts and getUserWorkoutById.
NothingDone ==
    /\ UNCHANGED <<workouts, workoutExercises, sets, exercises, serial, upd>>
    /\ lastStmt' = NoStmt
    /\ result'.by = NoUser
    /\ result'.revalidated = {}

C12_NoIdentityNoEffect ==
    [][/\ \A input \in AuthCreateInputs :
             createWorkoutAction(NoUser, input) => NothingDone
       /\ \A data \in AuthUpdateInputs :
             updateWorkoutAction(1, NoUser, data) => NothingDone
       /\ \A id \in AuthWorkoutIds :
             Call_getUserWorkoutById(NoUser, id) => NothingDone
       /\ Call_getUserWorkouts(NoUser) => NothingDone
       /\ Call_getUserWorkoutsByDate(NoUser, 1) => NothingDone]_vars

\* an update of an existing workout, asked for without a session, was turned away
C12_Witness ==
    /\ result.op = "updateWorkoutAction"
    /\ result.by = NoUser
    /\ result.value = [success |-> FALSE, error |-> "Unauthorized"]
    /\ lastStmt = NoStmt
    /\ \E w \in workouts : w.id = result.arg.workoutId

\* C13: a workout is created under the identity resolved for the request
\* and an update runs under it, whatever the input holds: a userId field in
\* the input reaches neither the inserted row, nor the filter of the
\* verifying read, nor the SET clause, and the write leaves userId alone.
OwnerAtoms(stmt) ==
    {stmt.where[k].val : k \in {j \in 1 .. Len(stmt.where) : stmt.where[j].col = "userId"}}

C13_OwnerFromAuth ==
    [][/\ \A i \in Identities, input \in AuthCreateInputs :
             createWorkoutAction(i, input) =>
                \A w \in workouts' : w \notin workouts => w.userId = i
       /\ \A i \in Identities, data \in AuthUpdateInputs :
             updateWorkoutAction(1, i, data) =>
                /\ OwnerAtoms(lastStmt') \subseteq {i}
                /\ upd'[1].pc = "write" =>
                      /\ upd'[1].by = i
                      /\ "userId" \notin DOMAIN upd'[1].setv
                      /\ \E w \in workouts : w.id = data.workoutId /\ w.userId = i
       /\ updateWorkoutFinish(1) =>
             \A w \in workouts' : w \notin workouts =>
                /\ w.userId = upd[1].by
                /\ \E old \in workouts : old.id = w.id /\ old.userId = w.userId]_vars

\* a workout created from an input that names another user belongs to the
\* caller, and so it does after an update whose input names another user
C13_Witness ==
    /\ result.op = "updateWorkoutAction"
    /\ "userId" \in DOMAIN result.arg
    /\ result.value.success
    /\ result.value.workout # Null
    /\ result.value.workout[1].userId = result.by
    /\ result.arg.userId # result.by

\* C14: a failure of the storage call (the database unreachable, a value
\* rejected) does not leave createWorkoutAction or updateWorkoutAction as a
\* thrown fault: each returns success = false with an error.
FailureReturned ==
    /\ result'.out = "return"
    /\ DOMAIN result'.value = {"success", "error"}
    /\ ~result'.value.success

C14_StorageFailureIsReturned ==
    [][/\ \A input \in StorageCreateInputs :
             (createWorkoutActionStorageDown("u1", input)
                \/ (createWorkoutAction("u1", input)
                      /\ ~Dal_createWorkoutAccepted(createWorkoutActionData("u1", input))))
                => FailureReturned
       /\ \A data \in StorageUpdateInputs :
             updateWorkoutActionStorageDown(1, "u1", data) => FailureReturned
       /\ (updateWorkoutFinishStorageDown(1) /\ upd[1].action) => FailureReturned
       /\ (updateWorkoutFinish(1) /\ upd[1].action
             /\ ~updateWorkoutWriteAccepted(workouts, upd[1])) => FailureReturned]_vars

\* the database rejected the over-long name of an update of an existing workout
C14_Witness ==
    /\ result.op = "updateWorkoutAction"
    /\ DOMAIN result.arg = {"workoutId", "name"}
    /\ result.arg.name = LongName
    /\ result.value = [success |-> FALSE,
                       error |-> "value too long for type character varying(255)"]
    /\ \E w \in workouts : w.id = result.arg.workoutId /\ w.name # Some(LongName)

\* C15 (as claimed): the error text createWorkoutAction and
\* updateWorkoutAction return is never the message of the storage error.
StorageMessages ==
    {ConnectionError, "value too long for type character varying(255)", "storage error"}

C15_GenericErrorText ==
    (/\ result.op \in {"createWorkoutAction", "updateWorkoutAction"}
     /\ result.out = "return"
     /\ ~result.value.success)
       => result.value.error \notin StorageMessages

\* C16 (as claimed): what createWorkoutAction and updateWorkoutAction hand
\* to the data helper obeys the declared rules: a name of 1..255
\* characters, startedAt and completedAt valid dates, workoutId positive.
HandedOverOk(setv) ==
    /\ "name" \in DOMAIN setv => (Len(setv.name) >= 1 /\ Len(setv.name) <= MaxNameLen)
    /\ ParamsOk(setv)

C16_ValidatedBeforeStorage ==
    /\ \A p \in Procs :
          (upd[p].pc = "write" /\ upd[p].action) =>
             (HandedOverOk(upd[p].setv) /\ upd[p].workoutId > 0)
    /\ (result.op = "createWorkoutAction" /\ lastStmt.kind = "insert") =>
          DeclaredRulesHold(result.op, result.arg)

\* C17 (as claimed): every workout has completedAt null or later than
\* startedAt.
C17_EndAfterStart ==
    \A w \in workouts : w.completedAt = Null \/ w.completedAt[1] > w.startedAt

\* C18: a workout is in progress (completedAt null) or completed
\* (completedAt a date); it is created in progress, becomes completed only
\* by an update whose SET clause gives completedAt a date, in progress
\* again only by an update whose SET clause gives completedAt null, and an
\* update whose SET clause does not name completedAt leaves it as it is.
Phase(w) == IF w.completedAt = Null THEN "in_progress" ELSE "completed"
PhaseOfSet(setv) == IF setv.completedAt = Null THEN "in_progress" ELSE "completed"

\* the step is an update of workout id that sets completedAt, to this phase
SetsPhase(id, phase) ==
    \/ \E p \in Procs :
          /\ updateWorkoutFinish(p)
          /\ upd[p].workoutId = id
          /\ "completedAt" \in DOMAIN upd[p].setv
          /\ PhaseOfSet(upd[p].setv) = phase
    \/ \E data \in LifePayloads :
          /\ Call_Dal_updateWorkout(id, "u1", data)
          /\ "completedAt" \in DOMAIN data
          /\ PhaseOfSet(data) = phase

C18_Lifecycle ==
    [][/\ \A w \in workouts' :
             /\ w.completedAt = Null \/ (Len(w.completedAt) = 1 /\ w.completedAt[1] \in Times)
             /\ (\A old \in workouts : old.id # w.id) => Phase(w) = "in_progress"
             /\ \A old \in workouts :
                   (old.id = w.id /\ Phase(old) # Phase(w)) => SetsPhase(w.id, Phase(w))
       /\ \A p \in Procs :
             (updateWorkoutFinish(p) /\ "completedAt" \notin DOMAIN upd[p].setv) =>
                \A old \in workouts, w \in workouts' : old.id = w.id => Phase(old) = Phase(w)]_vars

\* a completed workout was renamed by an update that does not mention
\* completedAt, and is still completed
C18_Witness ==
    /\ result.op = "updateWorkoutAction"
    /\ DOMAIN result.arg = {"workoutId", "name"}
    /\ result.value.success
    /\ result.value.workout # Null
    /\ result.value.workout[1].name = Some("B")
    /\ result.value.workout[1].completedAt # Null

\* C19: createWorkoutAction that returns success has revalidated
\* '/dashboard', updateWorkoutAction that returns success has revalidated
\* '/dashboard' and '/dashboard/workout/<workoutId>'; one that returns
\* success = false, or throws, has revalidated nothing.
Succeeded == result.out = "return" /\ result.value.success

C19_RevalidationOnSuccessOnly ==
    /\ result.op = "createWorkoutAction" =>
          result.revalidated = (IF Succeeded THEN {"/dashboard"} ELSE {})
    /\ result.op = "updateWorkoutAction" =>
          result.revalidated =
             (IF Succeeded
              THEN {"/dashboard", "/dashboard/workout/" \o ToString(result.arg.workoutId)}
              ELSE {})

\* an update went through and revalidated both paths, after a clock tick
C19_Witness ==
    /\ result.op = "updateWorkoutAction"
    /\ Succeeded
    /\ result.revalidated = {"/dashboard", "/dashboard/workout/1"}
    /\ result.value.workout # Null
    /\ result.value.workout[1].updatedAt > result.value.workout[1].createdAt

\* C20: deleteWorkout(id, owner) removes the row with that id and that
\* owner, and nothing else from workouts, and returns it; when there is no
\* such row it returns nothing and leaves workouts, workout_exercises and
\* sets as they are.
OwnedRow(id, owner) == {w \in workouts : w.id = id /\ w.userId = owner}

C20_DeleteWorkout ==
    [][\A u \in Users, id \in WorkoutIds :
          Call_deleteWorkout(id, u) =>
             /\ result'.out = "return"
             /\ IF OwnedRow(id, u) = {}
                THEN /\ result'.value = Null
                     /\ UNCHANGED <<workouts, workoutExercises, sets>>
                ELSE /\ result'.value \in {Some(w) : w \in OwnedRow(id, u)}
                     /\ workouts' = workouts \ OwnedRow(id, u)
                     /\ \A w \in workouts' : w.id # id]_vars

\* the owner deleted a workout and got the record, the other user's
\* workout with its exercise and set is still there
C20_Witness ==
    /\ result.op = "deleteWorkout"
    /\ result.value # Null
    /\ result.value[1].userId = result.by
    /\ result.value[1].id = result.arg.id
    /\ \E w \in workouts : w.userId # result.by
    /\ \E we \in workoutExercises : \E s \in sets : s.workoutExerciseId = we.id

\* C21 (as claimed): a workout created from a form whose name is blank is
\* stored with a generated label: its name is neither null nor empty.
C21_BlankNameGetsLabel ==
    (/\ result.op = "createWorkoutAction"
     /\ Succeeded
     /\ "name" \notin DOMAIN result.arg)
       => \A w \in workouts :
             w.id = result.value.workout[1].id => (w.name # Null /\ w.name # Some(""))

\* C22: createWorkoutWithExercises is all or nothing: when a row of the
\* unit fails to be written no row of the unit is in the tables afterwards,
\* and while the unit is being written no read gives its workout.
InTx == {upd[p].row.id : p \in {q \in Procs : upd[q].pc = "tx"}}
InTxNext == {upd'[p].row.id : p \in {q \in Procs : upd'[q].pc = "tx"}}

C23_DuplicateOrderAccepted ==
    /\ \A we \in workoutExercises :
          ENABLED InsertWorkoutExercise(we.workoutId, we.exerciseId, we.order)
    /\ \A a, b \in workoutExercises : a.id = b.id => a = b

\* two rows of one workout at the same position
C23_Witness ==
    \E a, b \in workoutExercises :
       a.id # b.id /\ a.workoutId = b.workoutId /\ a.order = b.order

\* C24 (as claimed): updateWorkoutAction returns success = true only when a
\* row was updated and returned, also when a deleteWorkout of the same
\* workout by the same user runs between the ownership read and the write.
C24_SuccessMeansRowUpdated ==
    (result.op = "updateWorkoutAction" /\ result.out = "return" /\ result.value.success)
       => result.value.workout # Null

\* C25: two updateWorkout calls by one user on one workout that are in
\* flight together are resolved per field: after the later write each field
\* holds the value of the later call if that call supplies it, and
\* otherwise the value of the earlier call if that one supplies it.
AsStored(c, v) == IF c = "name" THEN Some(v) ELSE v

C25_LastWriteWinsPerField ==
    [][\A q \in Procs :
          (/\ updateWorkoutFinish(q)
           /\ result.op = "updateWorkout" /\ result.out = "return"
           /\ result.value # Null
           /\ result.arg.workoutId = upd[q].workoutId
           /\ result.value[1] \in workouts) =>
             /\ result'.out = "return" /\ result'.value # Null
             /\ result'.value[1] \in workouts'
             /\ \A c \in {"name", "startedAt", "completedAt"} :
                   result'.value[1][c] =
                      IF c \in DOMAIN upd[q].setv THEN AsStored(c, upd[q].setv[c])
                      ELSE IF c \in DOMAIN result.arg.data
                      THEN AsStored(c, result.arg.data[c])
                      ELSE result.value[1][c]]_vars

\* a call that supplies only the name has written while a call that
\* supplies only completedAt, and read the workout earlier, has yet to write
C25_Witness ==
    /\ result.op = "updateWorkout" /\ result.out = "return"
    /\ result.value # Null
    /\ DOMAIN result.arg.data = {"name"}
    /\ result.value[1] \in workouts
    /\ \E q \in Procs :
          /\ upd[q].pc = "write"
          /\ upd[q].workoutId = result.arg.workoutId
          /\ DOMAIN upd[q].setv = {"completedAt", "updatedAt"}
          /\ upd[q].setv.completedAt # result.value[1].completedAt
          /\ upd[q].setv.updatedAt < result.value[1].updatedAt

\* C27 (as claimed): updatedAt of a workout never decreases, whatever the
\* interleaving of updateWorkout calls, and is never below createdAt.
C27_UpdatedAtMonotone ==
    [][\A old \in workouts, w \in workouts' :
          old.id = w.id => (w.updatedAt >= old.updatedAt /\ w.updatedAt >= w.createdAt)]_vars

\* C28: ownership is immutable: a workout keeps its id and its userId from
\* the insert that creates it to the delete that removes it, and an id that
\* was handed out, also one of a deleted workout, is never given to a later
\* workout.
C28_OwnershipImmutable ==
    [][/\ \A old \in workouts, w \in workouts' : old.id = w.id => w.userId = old.userId
       /\ \A w \in workouts' :
             (\A old \in workouts : old.id # w.id) => w.id > serial.workouts
       /\ serial'.workouts >= serial.workouts
       /\ \A w \in workouts' : w.id <= serial'.workouts /\ createdBy'[w.id] = w.userId
       /\ \A a, b \in workouts' : a.id = b.id => a = b]_vars

\* workout 1 was deleted, then a workout was created: it has id 2 and the
\* user it was created under
C28_Witness ==
    /\ result.op = "createWorkout" /\ result.out = "return"
    /\ result.value[1].id = 2
    /\ workouts = {result.value[1]}
    /\ createdBy[2] = result.value[1].userId
    /\ createdBy[1] # createdBy[2]

\* C29 (as claimed): every workout is shown on exactly one day: there is
\* exactly one day D for which getUserWorkoutsByDate(D), called by the
\* owner, lists it.
ShownOn(w, d) ==
    \E g \in getUserWorkoutsByDate(w.userId, d * DayLen) :
       g.out = "return" /\ w.id \in Listed(g.value)

C29_ShownOnExactlyOneDay ==
    \A w \in workouts : Cardinality({d \in 0 .. (NumDays - 1) : ShownOn(w, d)}) = 1

IsNumber(segment) ==
    segment # <<>> /\ \A i \in 1 .. Len(segment) : segment[i] \in Digits

C30_FormOnlyForOwnedWorkout ==
    [][\A u \in Users, segment \in Segments :
          EditWorkoutPage(u, segment) =>
             /\ result'.out = "return"
             /\ result'.value.rendered = "form" <=>
                   /\ IsNumber(segment)
                   /\ \E w \in workouts : w.id = Decimal(segment) /\ w.userId = u
             /\ result'.value.rendered # "form" => result'.value = NotFound
             /\ result'.value.rendered = "form" =>
                   /\ result'.value.workout[1].userId = u
                   /\ \E w \in workouts : w.id = result'.value.workout[1].id]_vars

====
